---- MODULE Spec2Model ----
(***************************************************************************)
(* Model of fuzztobread/job-scheduler: the career-page change detection    *)
(* pipeline (CareerScraperService), the in-memory repository, the diff     *)
(* function compareScrapeResults, the passes main and the cron scheduler   *)
(* start, the locking of the repository and the life of the scheduler.     *)
(***************************************************************************)
EXTENDS Integers, Sequences, FiniteSets, TLC

\* ------------------------------------------------------------------ bounds

\* Longest configured URL list (Config.URLs).
MaxURLs == 2
\* Number of cron ticks the scheduler dispatches after the initial run.
MaxTicks == 2
\* Number of ScrapeAndNotify invocations that can be in flight at once.
MaxPasses == 2
\* Longest job list given to compareScrapeResults in the diff specification.
MaxJobs == 2

\* ------------------------------------------------------------------ data

\* The source URLs a configuration can name.
URLSet == {"A", "B"}

Passes == 1..MaxPasses

\* domain.Job
Job(id, title, description, location, department, url, posted, scraped) ==
    [ID |-> id, Title |-> title, Description |-> description,
     Location |-> location, Department |-> department, URL |-> url,
     PostedDate |-> posted, ScrapedAt |-> scraped]

\* domain.JobCollection
JobCollection(company, source, scraped, jobs, raw) ==
    [CompanyName |-> company, SourceURL |-> source, ScrapedAt |-> scraped,
     Jobs |-> jobs, RawContent |-> raw]

\* The zero value domain.JobCollection{}.
EmptyCollection == JobCollection("", "", 0, <<>>, "")

\* domain.DiffResult
DiffResult(company, source, new, removed, updated) ==
    [CompanyName |-> company, SourceURL |-> source, NewJobs |-> new,
     RemovedJobs |-> removed, UpdatedJobs |-> updated]

\* The zero value domain.DiffResult{}.
EmptyDiff == DiffResult("", "", <<>>, <<>>, <<>>)

\* ------------------------------------------------------------------ diff

\* The map built by "for _, job := range jobs { m[job.ID] = job }": a later
\* job with the same ID replaces an earlier one.
JobMap(jobs) ==
    [id \in {jobs[k].ID : k \in DOMAIN jobs} |->
        jobs[CHOOSE k \in DOMAIN jobs :
                /\ jobs[k].ID = id
                /\ \A m \in DOMAIN jobs : m > k => jobs[m].ID # id]]

\* Faulty variant: the two jobs are compared as whole values.
TrackedFieldsDifferWhole(job, prevJob) == job # prevJob

\* Faulty variant: the comparison leaves the department out.
TrackedFieldsDifferNoDepartment(job, prevJob) ==
    \/ job.Title # prevJob.Title
    \/ job.Description # prevJob.Description
    \/ job.Location # prevJob.Location

\* The condition of the "else if" that classifies a job as updated.
TrackedFieldsDiffer(job, prevJob) ==
    \/ job.Title # prevJob.Title
    \/ job.Description # prevJob.Description
    \/ job.Location # prevJob.Location
    \/ job.Department # prevJob.Department

\* compareScrapeResults with a faulty removed loop: it appends every previous
\* job without looking its id up in currJobMap.
compareScrapeResultsNoLookup(prev, cur) ==
    LET prevJobMap == JobMap(prev.Jobs)
        IsNew(job) == job.ID \notin DOMAIN prevJobMap
        IsUpdated(job) == /\ job.ID \in DOMAIN prevJobMap
                          /\ TrackedFieldsDiffer(job, prevJobMap[job.ID])
    IN  DiffResult(cur.CompanyName, cur.SourceURL,
                   SelectSeq(cur.Jobs, IsNew),
                   prev.Jobs,
                   SelectSeq(cur.Jobs, IsUpdated))

\* The jobs of a list, last first.
Reverse(jobs) == [k \in DOMAIN jobs |-> jobs[Len(jobs) + 1 - k]]

\* compareScrapeResults with faulty appends: each job found is put in front
\* of the jobs found before it.
compareScrapeResultsPrepend(prev, cur) ==
    LET prevJobMap == JobMap(prev.Jobs)
        currJobMap == JobMap(cur.Jobs)
        IsNew(job) == job.ID \notin DOMAIN prevJobMap
        IsUpdated(job) == /\ job.ID \in DOMAIN prevJobMap
                          /\ TrackedFieldsDiffer(job, prevJobMap[job.ID])
        IsRemoved(prevJob) == prevJob.ID \notin DOMAIN currJobMap
    IN  DiffResult(cur.CompanyName, cur.SourceURL,
                   Reverse(SelectSeq(cur.Jobs, IsNew)),
                   Reverse(SelectSeq(prev.Jobs, IsRemoved)),
                   Reverse(SelectSeq(cur.Jobs, IsUpdated)))

\* CareerScraperService.compareScrapeResults
compareScrapeResults(prev, cur) ==
    LET prevJobMap == JobMap(prev.Jobs)
        currJobMap == JobMap(cur.Jobs)
        IsNew(job) == job.ID \notin DOMAIN prevJobMap
        IsUpdated(job) == /\ job.ID \in DOMAIN prevJobMap
                          /\ TrackedFieldsDiffer(job, prevJobMap[job.ID])
        IsRemoved(prevJob) == prevJob.ID \notin DOMAIN currJobMap
    IN  DiffResult(cur.CompanyName, cur.SourceURL,
                   SelectSeq(cur.Jobs, IsNew),
                   SelectSeq(prev.Jobs, IsRemoved),
                   SelectSeq(cur.Jobs, IsUpdated))

\* Faulty variant: removed jobs alone do not count as a change.
HasChangesNoRemoved(d) ==
    Len(d.NewJobs) > 0 \/ Len(d.UpdatedJobs) > 0

\* The condition under which processSingleURL calls the notifier.
HasChanges(d) ==
    Len(d.NewJobs) > 0 \/ Len(d.RemovedJobs) > 0 \/ Len(d.UpdatedJobs) > 0

\* ------------------------------------------------------------ repository

\* Faulty variant: an entry scraped later than the collection is kept.
SaveJobCollectionKeepNewest(store, collection) ==
    [u \in DOMAIN store \cup {collection.SourceURL} |->
        IF u # collection.SourceURL THEN store[u]
        ELSE IF u \in DOMAIN store /\ store[u].ScrapedAt > collection.ScrapedAt
             THEN store[u]
             ELSE collection]

\* Faulty variant: the jobs of the collection are added to those of the entry.
SaveJobCollectionMerge(store, collection) ==
    [u \in DOMAIN store \cup {collection.SourceURL} |->
        IF u # collection.SourceURL THEN store[u]
        ELSE IF u \in DOMAIN store
             THEN [collection EXCEPT !.Jobs = store[u].Jobs \o collection.Jobs]
             ELSE collection]

\* Faulty variant: an entry that exists is kept, the collection is dropped.
SaveJobCollectionKeepFirst(store, collection) ==
    [u \in DOMAIN store \cup {collection.SourceURL} |->
        IF u \in DOMAIN store THEN store[u] ELSE collection]

\* Faulty variant: a miss returns a collection that names the URL.
GetLatestJobCollectionNamed(store, url) ==
    IF url \in DOMAIN store THEN store[url]
    ELSE JobCollection("", url, 0, <<>>, "")

\* MemoryRepository.SaveJobCollection: r.collections[collection.SourceURL] =
\* collection.
SaveJobCollection(store, collection) ==
    [u \in DOMAIN store \cup {collection.SourceURL} |->
        IF u = collection.SourceURL THEN collection ELSE store[u]]

\* MemoryRepository.GetLatestJobCollection: the zero value on a miss.
GetLatestJobCollection(store, url) ==
    IF url \in DOMAIN store THEN store[url] ELSE EmptyCollection

\* --------------------------------------------------------------- scraper

\* extractCompanyName, on the URLs of URLSet.
extractCompanyName(url) == IF url = "A" THEN "Acme" ELSE "Bolt"

\* What parseJobs finds in one element of a page, before the scrape time is
\* stamped on it: id, title, description, location, department, url.
Listing(id, title, location, url) ==
    [ID |-> id, Title |-> title, Description |-> "desc",
     Location |-> location, Department |-> "eng", URL |-> url]

\* The pages a career site can serve. "dup" lists one data-job-id twice (a
\* job posted in two locations).
PageSet ==
    { [html |-> "none", listings |-> <<>>],
      [html |-> "one",  listings |-> <<Listing("1", "Engineer", "x", "/1")>>],
      [html |-> "dup",  listings |-> <<Listing("1", "Engineer", "x", "/1"),
                                       Listing("1", "Engineer", "y", "/1")>>] }

\* GoRodScraper.parseJobs: one domain.Job per listing, stamped time.Now().
parseJobs(listings, now) ==
    [k \in DOMAIN listings |->
        Job(listings[k].ID, listings[k].Title, listings[k].Description,
            listings[k].Location, listings[k].Department, listings[k].URL,
            0, now)]

\* GoRodScraper.Scrape: the collection and the error it returns. On an error
\* it returns the collection built so far, without jobs.
Scrape(url, page, fails, now) ==
    IF fails
    THEN [coll |-> JobCollection(extractCompanyName(url), url, now, <<>>, ""),
          err |-> TRUE]
    ELSE [coll |-> JobCollection(extractCompanyName(url), url, now,
                                 parseJobs(page.listings, now), page.html),
          err |-> FALSE]

\* ----------------------------------------------------------------- state

VARIABLES
    urls,          \* CareerScraperService.urls, the configured list
    repository,    \* the ports.JobRepository wired in: "memory" or "fallible"
    collections,   \* MemoryRepository.collections: URL -> JobCollection
    clock,         \* time.Now() in Scrape, per URL: the ordinal of the call
    phase,         \* where main is: boot, initial, scheduled, stopped
    ticks,         \* cron ticks dispatched so far
    pc,            \* per invocation: idle, scrape, lookup, notify, save, return
    i,             \* per invocation: index of the URL of the range loop
    currentJobs,   \* per invocation: processSingleURL's currentJobs
    previousJobs,  \* per invocation: processSingleURL's previousJobs
    diff,          \* per invocation: processSingleURL's diff
    ret,           \* per invocation: what ScrapeAndNotify returned last
    rec,           \* per invocation: the calls made for the URL in progress
    trail,         \* per invocation: outcome of each URL finished this pass
    lastStep,      \* per URL: the most recently finished processSingleURL
    previous,      \* compareScrapeResults' argument (diff specification)
    current,       \* compareScrapeResults' argument (diff specification)
    result,        \* compareScrapeResults' result (diff specification)
    delivery,      \* what a call of DiscordNotifier.NotifyNewJobs did
    mu,            \* MemoryRepository.mu: who holds the sync.RWMutex
    call,          \* per goroutine: its call of the repository in progress
    latest,        \* per URL: the collection passed to the latest map write
    cronRunning,   \* the cron of CronScheduler is started and not stopped
    ctxDone,       \* main's ctx has been cancelled
    startPc,       \* the goroutine of scheduler.Start: none, spawned, blocked, returned
    fired,         \* per invocation: what had happened when the tick started it
    errSeen        \* some invocation of the registered job returned an error

passVars == <<pc, i, currentJobs, previousJobs, diff, ret, rec, trail, lastStep>>
diffVars == <<previous, current, result, delivery>>
repoVars == <<mu, call, latest>>
schedVars == <<cronRunning, ctxDone, startPc, fired, errSeen>>
vars == <<urls, repository, collections, clock, phase, ticks, passVars, diffVars,
          repoVars, schedVars>>

\* All sequences over S of length at most n.
SeqUpTo(S, n) == UNION {[1..k -> S] : k \in 0..n}

\* The configured lists: every list over URLSet of at most MaxURLs entries,
\* up to the renaming of the URLs (the first entry is "A").
URLLists == {u \in SeqUpTo(URLSet, MaxURLs) : Len(u) > 0 => u[1] = "A"}

\* The jobs of a list with their scrape times left out.
StripJobs(jobs) == [k \in DOMAIN jobs |-> [jobs[k] EXCEPT !.ScrapedAt = 0]]

\* A diff with the scrape times of its jobs left out.
StripTime(d) ==
    [d EXCEPT !.NewJobs = StripJobs(@), !.RemovedJobs = StripJobs(@),
              !.UpdatedJobs = StripJobs(@)]

\* Nothing kept of the diff of a processSingleURL.
NoKept == [lookup |-> "none", changed |-> FALSE, with |-> EmptyDiff]

\* What is known of the previous processSingleURL over the same URL.
NoPrior == [known |-> FALSE, page |-> "", scrape |-> "none", save |-> "none",
            alone |-> FALSE, kept |-> NoKept]

\* The calls processSingleURL has made so far for one URL.
NoStep == [url |-> "", index |-> 0, scrape |-> "none", page |-> "",
           lookup |-> "none", hadEntry |-> FALSE, changed |-> FALSE,
           notify |-> "none", notifyWith |-> EmptyDiff, save |-> "none",
           saveWith |-> EmptyCollection, err |-> "none", done |-> FALSE,
           alone |-> TRUE, prior |-> NoPrior]

\* What is kept of the diff of r for the next processSingleURL of the URL:
\* the result of the lookup, whether the diff had changes and the diff the
\* notifier was called with. Kept where the repository can fail only.
Kept(r) ==
    IF repository = "fallible"
    THEN [lookup |-> r.lookup, changed |-> r.changed,
          with |-> StripTime(r.notifyWith)]
    ELSE NoKept

Summary(r) == [known |-> TRUE, page |-> r.page, scrape |-> r.scrape,
               save |-> r.save, alone |-> r.alone, kept |-> Kept(r)]

\* The whole pipeline was run for the URL of r: Scrape; after a successful
\* Scrape the lookup and the save; after a successful lookup the notifier
\* exactly when the diff had changes.
FullPipeline(r) ==
    /\ r.scrape # "none"
    /\ r.scrape = "ok" => r.lookup # "none" /\ r.save # "none"
    /\ r.lookup = "ok" => (r.notify # "none" <=> r.changed)

Outcome(r) == [index |-> r.index, full |-> FullPipeline(r), err |-> r.err = "err"]

\* Invocation q is between its Scrape and the end of processSingleURL for u.
MidStep(q, u) == pc[q] \in {"lookup", "notify", "save"} /\ rec[q].url = u

\* The errors the wired repository can return.
RepoErrors == IF repository = "memory" THEN {FALSE} ELSE {FALSE, TRUE}

\* ScrapeAndNotify has not returned: value is its error result ("nil" or
\* "err") once it has, failed the number of URLs whose processSingleURL
\* returned an error in that invocation.
NoReturn == [value |-> "none", failed |-> 0]

InitPasses ==
    /\ pc = [p \in Passes |-> "idle"]
    /\ i = [p \in Passes |-> 0]
    /\ currentJobs = [p \in Passes |-> EmptyCollection]
    /\ previousJobs = [p \in Passes |-> EmptyCollection]
    /\ diff = [p \in Passes |-> EmptyDiff]
    /\ ret = [p \in Passes |-> NoReturn]
    /\ rec = [p \in Passes |-> NoStep]
    /\ trail = [p \in Passes |-> <<>>]
    /\ lastStep = [u \in URLSet |-> NoPrior]

\* DiscordNotifier.NotifyNewJobs has not been called: requests is the number
\* of webhook requests it sent, err what it returned.
NoDelivery == [called |-> FALSE, requests |-> 0, err |-> "none"]

InitDiffIdle ==
    /\ previous = EmptyCollection
    /\ current = EmptyCollection
    /\ result = EmptyDiff
    /\ delivery = NoDelivery

\* What a repository call has returned: the collection and the error ("none"
\* while it has not returned).
NoResult == [coll |-> EmptyCollection, err |-> "none"]

\* No repository call made yet by a goroutine.
NoCall == [op |-> "none", pc |-> "idle", coll |-> EmptyCollection, url |-> "",
           out |-> NoResult, miss |-> FALSE, want |-> EmptyCollection]

\* No SaveJobCollection has written an entry for the URL.
NoSave == [some |-> FALSE, coll |-> EmptyCollection]

\* The sync.RWMutex, unlocked: no writer (0), no readers.
Unlocked == [writer |-> 0, readers |-> {}]

\* NewMemoryRepository, no call in progress.
InitRepoIdle ==
    /\ mu = Unlocked
    /\ call = [g \in Passes |-> NoCall]
    /\ latest = [u \in URLSet |-> NoSave]

\* What was so when a tick started the invocation.
NoFire == [afterCancel |-> FALSE, afterStop |-> FALSE, afterErr |-> FALSE]

\* NewCronScheduler: the cron is not started; main has no ctx yet.
InitSchedIdle ==
    /\ cronRunning = FALSE
    /\ ctxDone = FALSE
    /\ startPc = "none"
    /\ fired = [p \in Passes |-> NoFire]
    /\ errSeen = FALSE

\* main up to NewCareerScraperService: NewMemoryRepository gives an empty map.
Init ==
    /\ urls \in URLLists
    /\ repository = "memory"
    /\ collections = << >>
    /\ clock = [u \in URLSet |-> 1]
    /\ phase = "boot"
    /\ ticks = 0
    /\ InitPasses
    /\ InitDiffIdle
    /\ InitRepoIdle
    /\ InitSchedIdle

\* The same service over a JobRepository whose calls can return errors.
InitPorts ==
    /\ urls \in URLLists
    /\ repository = "fallible"
    /\ collections = << >>
    /\ clock = [u \in URLSet |-> 1]
    /\ phase = "boot"
    /\ ticks = 0
    /\ InitPasses
    /\ InitDiffIdle
    /\ InitRepoIdle
    /\ InitSchedIdle

\* --------------------------------------------------------------- service

\* Faulty variant: a Scrape error does not return, the partial result is saved.
AfterScrapeSaves(err) == IF err THEN "save" ELSE "lookup"

\* processSingleURL after Scrape: "if err != nil { return ... }".
AfterScrape(err) == IF err THEN "fail" ELSE "lookup"

\* Faulty variant: a lookup error returns without saving.
AfterLookupReturns(err, d) ==
    IF err THEN "fail" ELSE IF HasChanges(d) THEN "notify" ELSE "save"

\* Faulty variant: changes are saved without a call of the notifier.
AfterLookupSkipsNotify(err, d) == "save"

\* processSingleURL after GetLatestJobCollection: on an error save without
\* notifying; otherwise notify when the diff has changes.
AfterLookup(err, d) ==
    IF err THEN "save" ELSE IF HasChanges(d) THEN "notify" ELSE "save"

\* Faulty variant: a notifier error returns without saving.
AfterNotifyReturns(err) == IF err THEN "fail" ELSE "save"

\* processSingleURL after NotifyNewJobs: "Continue anyway and save".
AfterNotify(err) == "save"

\* Faulty variant: a save that returns an error has stored the collection.
FailedSaveStores(store, collection) == SaveJobCollection(store, collection)

\* The store after a SaveJobCollection that returned an error: as before.
FailedSave(store, collection) == store

\* What processSingleURL returns after SaveJobCollection.
StepResult(saveErr) == IF saveErr THEN "err" ELSE "nil"

\* Faulty variant: the loop ends at the first URL that returned an error.
NextIndexAborts(idx, stepErr) == IF stepErr THEN Len(urls) + 1 ELSE idx + 1

\* Faulty variant: a URL that returned an error is processed again.
NextIndexRetries(idx, stepErr) == IF stepErr THEN idx ELSE idx + 1

\* The range loop of ScrapeAndNotify: "continue" whatever the URL returned.
NextIndex(idx, stepErr) == idx + 1

\* Faulty variant: an error of some URL is returned to the caller.
ScrapeAndNotifyReturnFirstErr(anyErr) == IF anyErr THEN "err" ELSE "nil"

\* ScrapeAndNotify's return value: "return nil".
ScrapeAndNotifyReturn(anyErr) == "nil"

\* processSingleURL returns e for invocation p; base is rec with this
\* action's calls recorded.
EndStep(p, base, e) ==
    LET fin == [base[p] EXCEPT !.err = e, !.done = TRUE]
        nxt == NextIndex(i[p], e = "err")
    IN  /\ rec' = [base EXCEPT ![p] = fin]
        /\ lastStep' = [lastStep EXCEPT ![fin.url] = Summary(fin)]
        /\ trail' = [trail EXCEPT ![p] = Append(@, Outcome(fin))]
        /\ i' = [i EXCEPT ![p] = nxt]
        /\ pc' = [pc EXCEPT ![p] = IF nxt <= Len(urls) THEN "scrape" ELSE "return"]
        /\ previousJobs' = [previousJobs EXCEPT ![p] = EmptyCollection]
        /\ diff' = [diff EXCEPT ![p] = EmptyDiff]

\* processSingleURL goes on to its next call.
ContinueStep(p, base, next) ==
    /\ rec' = base
    /\ pc' = [pc EXCEPT ![p] = next]
    /\ UNCHANGED <<lastStep, trail, i, previousJobs, diff>>

Step(p, base, next) ==
    IF next = "fail" THEN EndStep(p, base, "err") ELSE ContinueStep(p, base, next)

\* The lowest invocation slot that is idle: the goroutine a tick starts.
FreeSlot == CHOOSE p \in Passes : pc[p] = "idle" /\ \A q \in Passes : pc[q] = "idle" => p <= q

\* ScrapeAndNotify is entered by invocation p.
Enter(p) ==
    /\ pc[p] = "idle"
    /\ pc' = [pc EXCEPT ![p] = IF Len(urls) >= 1 THEN "scrape" ELSE "return"]
    /\ i' = [i EXCEPT ![p] = 1]
    /\ ret' = [ret EXCEPT ![p] = NoReturn]
    /\ rec' = [rec EXCEPT ![p] = NoStep]
    /\ trail' = [trail EXCEPT ![p] = <<>>]
    /\ UNCHANGED <<currentJobs, previousJobs, diff, lastStep>>
    /\ UNCHANGED <<urls, repository, collections, clock, diffVars, repoVars, schedVars>>

\* main: "Running initial scrape job...", a synchronous ScrapeAndNotify.
InitialRun ==
    /\ phase = "boot"
    /\ phase' = "initial"
    /\ Enter(1)
    /\ UNCHANGED ticks

\* Faulty variant: a tick is skipped while an invocation is running.
CanDispatchWhenIdle(running) == running = {}

\* Whether a tick starts the job, given the invocations still running: the
\* cron starts the registered func() in a new goroutine at every tick, and
\* neither that func() nor ScrapeAndNotify looks for a running invocation.
CanDispatch(running) == TRUE

\* The cron entry of CronScheduler.Schedule fires: job(context.Background())
\* in a goroutine of its own.
Tick(p) ==
    /\ phase = "scheduled"
    /\ ticks < MaxTicks
    /\ CanDispatch({q \in Passes : pc[q] # "idle"})
    /\ p = FreeSlot
    /\ ticks' = ticks + 1
    /\ Enter(p)
    /\ UNCHANGED phase

\* A tick that finds no earlier invocation still running.
TickIdle(p) ==
    /\ \A q \in Passes : pc[q] = "idle"
    /\ Tick(p)

\* main on SIGINT/SIGTERM: cancel() and scheduler.Stop(), taken as one step
\* (the scheduler specification takes them apart). Invocations in flight go
\* on: their ctx is context.Background().
Shutdown ==
    /\ phase = "scheduled"
    /\ phase' = "stopped"
    /\ UNCHANGED <<urls, repository, collections, clock, ticks, passVars, diffVars, repoVars, schedVars>>

\* processSingleURL: s.scraper.Scrape(ctx, url) for the URL of the loop.
DoScrape(p) ==
    /\ pc[p] = "scrape"
    /\ \E page \in PageSet, fails \in BOOLEAN :
        LET url == urls[i[p]]
            out == Scrape(url, page, fails, clock[url])
            busy == {q \in Passes \ {p} : MidStep(q, url)}
            start == [NoStep EXCEPT
                        !.url = url, !.index = i[p],
                        !.scrape = IF out.err THEN "err" ELSE "ok",
                        !.page = IF out.err THEN "" ELSE page.html,
                        !.alone = busy = {},
                        !.prior = IF busy = {} THEN lastStep[url] ELSE NoPrior]
            base == [q \in Passes |->
                        IF q = p THEN start
                        ELSE IF q \in busy THEN [rec[q] EXCEPT !.alone = FALSE]
                        ELSE rec[q]]
        IN  /\ fails => page = CHOOSE pg \in PageSet : TRUE
            /\ currentJobs' = [currentJobs EXCEPT ![p] = out.coll]
            /\ clock' = [clock EXCEPT ![url] = @ + 1]
            /\ Step(p, base, AfterScrape(out.err))
    /\ UNCHANGED ret
    /\ UNCHANGED <<urls, repository, collections, phase, ticks, diffVars, repoVars, schedVars>>

\* processSingleURL: s.repository.GetLatestJobCollection(ctx, url), then
\* compareScrapeResults when the lookup returned no error.
DoLookup(p) ==
    /\ pc[p] = "lookup"
    /\ \E err \in RepoErrors :
        LET url == rec[p].url
            prev == IF err THEN EmptyCollection
                    ELSE GetLatestJobCollection(collections, url)
            d == IF err THEN EmptyDiff
                 ELSE compareScrapeResults(prev, currentJobs[p])
            base == [rec EXCEPT ![p].lookup = IF err THEN "err" ELSE "ok",
                                ![p].hadEntry = url \in DOMAIN collections,
                                ![p].changed = HasChanges(d)]
            next == AfterLookup(err, d)
        IN  IF next = "fail"
            THEN EndStep(p, base, "err")
            ELSE /\ previousJobs' = [previousJobs EXCEPT ![p] = prev]
                 /\ diff' = [diff EXCEPT ![p] = d]
                 /\ rec' = base
                 /\ pc' = [pc EXCEPT ![p] = next]
                 /\ UNCHANGED <<lastStep, trail, i>>
    /\ UNCHANGED <<currentJobs, ret>>
    /\ UNCHANGED <<urls, repository, collections, clock, phase, ticks, diffVars, repoVars, schedVars>>

\* processSingleURL: s.notifier.NotifyNewJobs(ctx, diff).
DoNotify(p) ==
    /\ pc[p] = "notify"
    /\ \E err \in BOOLEAN :
        LET base == [rec EXCEPT ![p].notify = IF err THEN "err" ELSE "ok",
                                ![p].notifyWith = diff[p]]
        IN  Step(p, base, AfterNotify(err))
    /\ UNCHANGED <<currentJobs, ret>>
    /\ UNCHANGED <<urls, repository, collections, clock, phase, ticks, diffVars, repoVars, schedVars>>

\* processSingleURL: s.repository.SaveJobCollection(ctx, currentJobs). A save
\* that returns an error has stored nothing.
DoSave(p) ==
    /\ pc[p] = "save"
    /\ \E err \in RepoErrors :
        LET base == [rec EXCEPT ![p].save = IF err THEN "err" ELSE "ok",
                                ![p].saveWith = currentJobs[p]]
        IN  /\ collections' = IF err THEN FailedSave(collections, currentJobs[p])
                              ELSE SaveJobCollection(collections, currentJobs[p])
            /\ EndStep(p, base, StepResult(err))
    /\ UNCHANGED <<currentJobs, ret>>
    /\ UNCHANGED <<urls, repository, clock, phase, ticks, diffVars, repoVars, schedVars>>

\* ScrapeAndNotify: the loop is over, "return nil". main goes on to Schedule
\* and Start after the initial run.
Return(p) ==
    /\ pc[p] = "return"
    /\ pc' = [pc EXCEPT ![p] = "idle"]
    /\ ret' = [ret EXCEPT ![p] =
                 [value |-> ScrapeAndNotifyReturn(\E k \in DOMAIN trail[p] : trail[p][k].err),
                  failed |-> Cardinality({k \in DOMAIN trail[p] : trail[p][k].err})]]
    /\ phase' = IF phase = "initial" THEN "scheduled" ELSE phase
    /\ i' = [i EXCEPT ![p] = 0]
    /\ currentJobs' = [currentJobs EXCEPT ![p] = EmptyCollection]
    /\ rec' = [rec EXCEPT ![p] = NoStep]
    /\ trail' = [trail EXCEPT ![p] = <<>>]
    /\ UNCHANGED <<previousJobs, diff, lastStep>>
    /\ UNCHANGED <<urls, repository, collections, clock, ticks, diffVars, repoVars, schedVars>>

Next ==
    \/ InitialRun
    \/ \E p \in Passes : Tick(p)
    \/ Shutdown
    \/ \E p \in Passes : DoScrape(p)
    \/ \E p \in Passes : DoLookup(p)
    \/ \E p \in Passes : DoNotify(p)
    \/ \E p \in Passes : DoSave(p)
    \/ \E p \in Passes : Return(p)

\* The program as main wires it: the in-memory repository, ticks that do not
\* wait for the invocation before them.
Spec == Init /\ [][Next]_vars

\* The same steps when every pass ends before the next tick.
NextPorts ==
    \/ InitialRun
    \/ \E p \in Passes : TickIdle(p)
    \/ Shutdown
    \/ \E p \in Passes : DoScrape(p)
    \/ \E p \in Passes : DoLookup(p)
    \/ \E p \in Passes : DoNotify(p)
    \/ \E p \in Passes : DoSave(p)
    \/ \E p \in Passes : Return(p)

\* The service over a repository whose calls can fail, passes not overlapping.
SpecPorts == InitPorts /\ [][NextPorts]_vars

\* ------------------------------------------------------ diff specification

\* The jobs the diff specification draws from: job "1" and the same job with
\* one field changed, for each of the seven other fields; jobs "2" and "3".
JobUniverse ==
    { Job("1", "Engineer", "desc", "x", "eng", "/1", 0, 1),
      Job("1", "Senior Engineer", "desc", "x", "eng", "/1", 0, 1),
      Job("1", "Engineer", "desc2", "x", "eng", "/1", 0, 1),
      Job("1", "Engineer", "desc", "y", "eng", "/1", 0, 1),
      Job("1", "Engineer", "desc", "x", "ops", "/1", 0, 1),
      Job("1", "Engineer", "desc", "x", "eng", "/1b", 0, 1),
      Job("1", "Engineer", "desc", "x", "eng", "/1", 5, 1),
      Job("1", "Engineer", "desc", "x", "eng", "/1", 0, 2),
      Job("2", "Designer", "desc", "x", "eng", "/2", 0, 1),
      Job("3", "Analyst", "desc", "x", "eng", "/3", 0, 1) }

\* Two snapshots of one source, compareScrapeResults not yet called.
InitDiff ==
    /\ \E prevJobs \in SeqUpTo(JobUniverse, MaxJobs) :
         previous = JobCollection("Acme", "A", 1, prevJobs, "")
    /\ \E curJobs \in SeqUpTo(JobUniverse, MaxJobs) :
         current = JobCollection("Acme", "A", 1, curJobs, "")
    /\ result = [done |-> FALSE, diff |-> EmptyDiff, notify |-> FALSE]
    /\ delivery = NoDelivery
    /\ urls = <<>>
    /\ repository = "memory"
    /\ collections = << >>
    /\ clock = [u \in URLSet |-> 1]
    /\ phase = "diff"
    /\ ticks = 0
    /\ InitPasses
    /\ InitRepoIdle
    /\ InitSchedIdle

\* diff := s.compareScrapeResults(previousJobs, currentJobs), and whether the
\* "if" after it calls the notifier.
Compare ==
    /\ ~result.done
    /\ LET d == compareScrapeResults(previous, current)
       IN  result' = [done |-> TRUE, diff |-> d, notify |-> HasChanges(d)]
    /\ UNCHANGED <<previous, current, delivery>>
    /\ UNCHANGED <<urls, repository, collections, clock, phase, ticks, passVars,
                   repoVars, schedVars>>

NextDiff == Compare

\* compareScrapeResults applied to every pair of bounded snapshots.
SpecDiff == InitDiff /\ [][NextDiff]_vars

\* -------------------------------------------------- notifier specification

\* The jobs of the diffs given to the notifier.
NotifyJobs ==
    { Job("1", "Engineer", "desc", "x", "eng", "/1", 0, 1),
      Job("2", "Designer", "desc", "x", "eng", "/2", 0, 1) }

\* What the webhook endpoint does with a request: a 2xx status, another
\* status, or no response (client.Do returns an error).
Responses == {"2xx", "5xx", "none"}

\* DiscordNotifier.sendWebhook: one POST; nil on a 2xx status only.
sendWebhook(response) ==
    [called |-> TRUE, requests |-> 1,
     err |-> IF response = "2xx" THEN "nil" ELSE "err"]

\* Faulty variant: the payload is built and sent whatever the diff holds.
NotifyNewJobsAlwaysSends(d, response) == sendWebhook(response)

\* DiscordNotifier.NotifyNewJobs: "Skip if there are no changes", otherwise
\* build the payload and send it.
NotifyNewJobs(d, response) ==
    IF Len(d.NewJobs) = 0 /\ Len(d.UpdatedJobs) = 0 /\ Len(d.RemovedJobs) = 0
    THEN [called |-> TRUE, requests |-> 0, err |-> "nil"]
    ELSE sendWebhook(response)

\* A diff of up to MaxJobs jobs per list, NotifyNewJobs not yet called.
InitNotify ==
    /\ \E new, removed, updated \in SeqUpTo(NotifyJobs, MaxJobs) :
         result = [done |-> TRUE, notify |-> FALSE,
                   diff |-> DiffResult("Acme", "A", new, removed, updated)]
    /\ previous = EmptyCollection
    /\ current = EmptyCollection
    /\ delivery = NoDelivery
    /\ urls = <<>>
    /\ repository = "memory"
    /\ collections = << >>
    /\ clock = [u \in URLSet |-> 1]
    /\ phase = "notify"
    /\ ticks = 0
    /\ InitPasses
    /\ InitRepoIdle
    /\ InitSchedIdle

\* n.NotifyNewJobs(ctx, diff), called directly with the diff.
Deliver ==
    /\ ~delivery.called
    /\ \E response \in Responses :
         delivery' = NotifyNewJobs(result.diff, response)
    /\ UNCHANGED <<previous, current, result>>
    /\ UNCHANGED <<urls, repository, collections, clock, phase, ticks, passVars,
                   repoVars, schedVars>>

NextNotify == Deliver

\* DiscordNotifier.NotifyNewJobs applied to every bounded diff.
SpecNotify == InitNotify /\ [][NextNotify]_vars

\* ------------------------------------------------ repository specification

\* The collections the callers pass to SaveJobCollection: for each URL two
\* snapshots, of different scrape times.
SaveArgs ==
    { JobCollection(extractCompanyName(u), u, t,
                    <<Job("1", "Engineer", "desc", "x", "eng", "/1", 0, t)>>, "one") :
        u \in URLSet, t \in {1, 2} }

\* Faulty variant: Lock is granted while readers hold the mutex.
CanLockAmongReaders(m) == m.writer = 0

\* sync.RWMutex.Lock is granted when nobody holds the mutex.
CanLock(m) == m.writer = 0 /\ m.readers = {}

\* sync.RWMutex.RLock is granted when no writer holds the mutex.
CanRLock(m) == m.writer = 0

\* A memory repository with nothing saved, its callers idle.
InitRepo ==
    /\ urls = <<>>
    /\ repository = "memory"
    /\ collections = << >>
    /\ clock = [u \in URLSet |-> 1]
    /\ phase = "repo"
    /\ ticks = 0
    /\ InitPasses
    /\ InitDiffIdle
    /\ InitRepoIdle
    /\ InitSchedIdle

RepoFrame ==
    UNCHANGED <<urls, repository, clock, phase, ticks, passVars, diffVars, schedVars>>

\* Goroutine g calls SaveJobCollection(ctx, c).
CallSave(g, c) ==
    /\ call[g].pc = "idle"
    /\ call' = [call EXCEPT ![g] = [NoCall EXCEPT !.op = "save", !.pc = "lock",
                                                  !.coll = c]]
    /\ UNCHANGED <<mu, latest, collections>>
    /\ RepoFrame

\* SaveJobCollection: r.mu.Lock() returns.
Lock(g) ==
    /\ call[g].pc = "lock"
    /\ CanLock(mu)
    /\ mu' = [mu EXCEPT !.writer = g]
    /\ call' = [call EXCEPT ![g].pc = "write"]
    /\ UNCHANGED <<latest, collections>>
    /\ RepoFrame

\* SaveJobCollection: r.collections[collection.SourceURL] = collection.
Write(g) ==
    /\ call[g].pc = "write"
    /\ collections' = SaveJobCollection(collections, call[g].coll)
    /\ latest' = [latest EXCEPT ![call[g].coll.SourceURL] =
                    [some |-> TRUE, coll |-> call[g].coll]]
    /\ call' = [call EXCEPT ![g].pc = "unlock"]
    /\ UNCHANGED mu
    /\ RepoFrame

\* SaveJobCollection: "return nil" and the deferred r.mu.Unlock().
Unlock(g) ==
    /\ call[g].pc = "unlock"
    /\ mu' = [mu EXCEPT !.writer = 0]
    /\ call' = [call EXCEPT ![g].pc = "idle",
                            ![g].out = [coll |-> EmptyCollection, err |-> "nil"]]
    /\ UNCHANGED <<latest, collections>>
    /\ RepoFrame

\* Goroutine g calls GetLatestJobCollection(ctx, u).
CallGet(g, u) ==
    /\ call[g].pc = "idle"
    /\ call' = [call EXCEPT ![g] = [NoCall EXCEPT !.op = "get", !.pc = "rlock",
                                                  !.url = u]]
    /\ UNCHANGED <<mu, latest, collections>>
    /\ RepoFrame

\* GetLatestJobCollection: r.mu.RLock() returns.
RLock(g) ==
    /\ call[g].pc = "rlock"
    /\ CanRLock(mu)
    /\ mu' = [mu EXCEPT !.readers = @ \cup {g}]
    /\ call' = [call EXCEPT ![g].pc = "read"]
    /\ UNCHANGED <<latest, collections>>
    /\ RepoFrame

\* GetLatestJobCollection: the map read and the choice of the return values.
Read(g) ==
    /\ call[g].pc = "read"
    /\ call' = [call EXCEPT
                  ![g].pc = "runlock",
                  ![g].out = [coll |-> GetLatestJobCollection(collections, call[g].url),
                              err |-> "nil"],
                  ![g].miss = ~latest[call[g].url].some,
                  ![g].want = latest[call[g].url].coll]
    /\ UNCHANGED <<mu, latest, collections>>
    /\ RepoFrame

\* GetLatestJobCollection: the return and the deferred r.mu.RUnlock().
RUnlock(g) ==
    /\ call[g].pc = "runlock"
    /\ mu' = [mu EXCEPT !.readers = @ \ {g}]
    /\ call' = [call EXCEPT ![g].pc = "idle"]
    /\ UNCHANGED <<latest, collections>>
    /\ RepoFrame

NextRepo ==
    \/ \E g \in Passes, c \in SaveArgs : CallSave(g, c)
    \/ \E g \in Passes : Lock(g)
    \/ \E g \in Passes : Write(g)
    \/ \E g \in Passes : Unlock(g)
    \/ \E g \in Passes, u \in URLSet : CallGet(g, u)
    \/ \E g \in Passes : RLock(g)
    \/ \E g \in Passes : Read(g)
    \/ \E g \in Passes : RUnlock(g)

\* The memory repository called by concurrent goroutines, every call taken
\* apart into its lock, map and unlock steps.
SpecRepo == InitRepo /\ [][NextRepo]_vars

\* ------------------------------------------------- scheduler specification

\* Faulty variant: the cron is stopped when the job returns an error.
OnJobErrorStops(err, running) == IF err THEN FALSE ELSE running

\* The func() of CronScheduler.Schedule after job(ctx) returned: an error is
\* logged, the cron stays as it is.
OnJobError(err, running) == running

\* s.cron.Start() in CronScheduler.Start.
StartCron(running) == TRUE

\* s.cron.Stop() in CronScheduler.Stop.
StopCron(running) == FALSE

\* main after NewCronScheduler, the job to register any ports.Job.
InitSched ==
    /\ urls = <<>>
    /\ repository = "memory"
    /\ collections = << >>
    /\ clock = [u \in URLSet |-> 1]
    /\ phase = "boot"
    /\ ticks = 0
    /\ InitPasses
    /\ InitDiffIdle
    /\ InitRepoIdle
    /\ InitSchedIdle

SchedFrame ==
    UNCHANGED <<urls, repository, collections, clock, i, currentJobs,
                previousJobs, diff, rec, trail, lastStep, diffVars, repoVars>>

\* main: scheduler.Schedule(cfg.ScrapeInterval, job) registers the entry.
Schedule ==
    /\ phase = "boot"
    /\ phase' = "scheduled"
    /\ UNCHANGED <<ticks, pc, ret, schedVars>>
    /\ SchedFrame

\* main: "go func() { scheduler.Start(ctx) }()", then on to <-sigCh.
GoStart ==
    /\ phase = "scheduled"
    /\ phase' = "waiting"
    /\ startPc' = "spawned"
    /\ UNCHANGED <<ticks, pc, ret, cronRunning, ctxDone, fired, errSeen>>
    /\ SchedFrame

\* CronScheduler.Start in its goroutine: s.cron.Start(), then it blocks on
\* <-ctx.Done().
CronStart ==
    /\ startPc = "spawned"
    /\ phase # "exited"
    /\ cronRunning' = StartCron(cronRunning)
    /\ startPc' = "blocked"
    /\ UNCHANGED <<phase, ticks, pc, ret, ctxDone, fired, errSeen>>
    /\ SchedFrame

\* CronScheduler.Start: <-ctx.Done() is ready, "return ctx.Err()".
StartReturn ==
    /\ startPc = "blocked"
    /\ ctxDone
    /\ phase # "exited"
    /\ startPc' = "returned"
    /\ UNCHANGED <<phase, ticks, pc, ret, cronRunning, ctxDone, fired, errSeen>>
    /\ SchedFrame

\* main: a signal arrives on sigCh, cancel().
Cancel ==
    /\ phase = "waiting"
    /\ phase' = "cancelled"
    /\ ctxDone' = TRUE
    /\ UNCHANGED <<ticks, pc, ret, cronRunning, startPc, fired, errSeen>>
    /\ SchedFrame

\* main: scheduler.Stop() returns.
Stop ==
    /\ phase = "cancelled"
    /\ phase' = "stopped"
    /\ cronRunning' = StopCron(cronRunning)
    /\ UNCHANGED <<ticks, pc, ret, ctxDone, startPc, fired, errSeen>>
    /\ SchedFrame

\* main returns: the process and its goroutines end.
Exit ==
    /\ phase = "stopped"
    /\ phase' = "exited"
    /\ UNCHANGED <<ticks, pc, ret, schedVars>>
    /\ SchedFrame

\* The running cron reaches a tick: the registered func() starts in a
\* goroutine of its own and calls job(context.Background()).
CronTick(p) ==
    /\ cronRunning
    /\ phase # "exited"
    /\ ticks < MaxTicks
    /\ p = FreeSlot
    /\ ticks' = ticks + 1
    /\ pc' = [pc EXCEPT ![p] = "job"]
    /\ ret' = [ret EXCEPT ![p] = NoReturn]
    /\ fired' = [fired EXCEPT ![p] = [afterCancel |-> ctxDone,
                                      afterStop |-> phase = "stopped",
                                      afterErr |-> errSeen]]
    /\ UNCHANGED <<phase, cronRunning, ctxDone, startPc, errSeen>>
    /\ SchedFrame

\* job(ctx) returns to the registered func(): "if err != nil { log }".
JobReturn(p) ==
    /\ pc[p] = "job"
    /\ phase # "exited"
    /\ \E err \in BOOLEAN :
        /\ ret' = [ret EXCEPT ![p] = [value |-> IF err THEN "err" ELSE "nil",
                                      failed |-> 0]]
        /\ errSeen' = (errSeen \/ err)
        /\ cronRunning' = OnJobError(err, cronRunning)
    /\ pc' = [pc EXCEPT ![p] = "idle"]
    /\ UNCHANGED <<phase, ticks, ctxDone, startPc, fired>>
    /\ SchedFrame

NextSched ==
    \/ Schedule
    \/ GoStart
    \/ CronStart
    \/ StartReturn
    \/ Cancel
    \/ Stop
    \/ Exit
    \/ \E p \in Passes : CronTick(p)
    \/ \E p \in Passes : JobReturn(p)

\* CronScheduler as main drives it, the registered job free to return an
\* error.
SpecSched == InitSched /\ [][NextSched]_vars

\* The job ids of a job list.
IDs(jobs) == {jobs[k].ID : k \in DOMAIN jobs}

\* How many jobs of a list carry the id.
Count(jobs, id) == Cardinality({k \in DOMAIN jobs : jobs[k].ID = id})

\* ---------------------------------------------------------------- claims

\* C1 (as claimed): when the repository holds no entry for the URL and Scrape
\* succeeds, the pass saves the snapshot and does not call the notifier.
C1_FirstObservationSilence ==
    \A p \in Passes :
        (rec[p].scrape = "ok" /\ rec[p].lookup # "none" /\ ~rec[p].hadEntry)
        => /\ rec[p].notify = "none"
           /\ rec[p].done => rec[p].save # "none"

\* C2: after the notifier returned an error, SaveJobCollection is the next
\* call of processSingleURL, it is given the snapshot just scraped, and the
\* repository entry of the URL becomes that snapshot.
C2_PersistAfterNotifyFailure ==
    [][\A p \in Passes :
        /\ rec'[p].notify = "err" =>
              IF rec'[p].done
              THEN rec'[p].save = "ok" /\ rec'[p].saveWith = currentJobs'[p]
              ELSE pc'[p] = "save"
        /\ (rec[p].notify = "err" /\ ~rec[p].done /\ rec'[p].done) =>
              /\ currentJobs[p].SourceURL = rec[p].url
              /\ currentJobs[p].RawContent = rec[p].page
              /\ rec[p].url \in DOMAIN collections'
              /\ collections'[rec[p].url] = currentJobs[p]]_vars

\* C2 witness: a notifier error was followed by a save of the scraped snapshot.
C2_Witness ==
    \E p \in Passes :
        /\ rec[p].notify = "err" /\ rec[p].done /\ rec[p].save = "ok"
        /\ collections[rec[p].url] = rec[p].saveWith
        /\ Len(rec[p].saveWith.Jobs) > 0

\* C3: when ScrapeAndNotify is about to return, the whole pipeline has been
\* run once for every configured URL, in list order, whatever failed for
\* the others.
C3_FailureIsolation ==
    \A p \in Passes :
        /\ \A k \in DOMAIN trail[p] : trail[p][k].index = k /\ trail[p][k].full
        /\ pc[p] = "return" => Len(trail[p]) = Len(urls)
        /\ pc[p] \in {"scrape", "lookup", "notify", "save"} =>
              /\ i[p] \in 1..Len(urls)
              /\ Len(trail[p]) = i[p] - 1

\* C3 witness: the first URL failed and the second was scraped, looked up and
\* saved in the same pass.
C3_Witness ==
    \E p \in Passes :
        /\ pc[p] = "return" /\ Len(urls) = 2
        /\ trail[p][1].err /\ ~trail[p][2].err
        /\ rec[p].index = 2 /\ rec[p].lookup = "ok" /\ rec[p].save = "ok"

\* C4: a Scrape error ends the processing of the URL at once: no lookup, no
\* notifier call, no save, and the repository is left as it was.
C4_FetchFailureUntouched ==
    [][\A p \in Passes :
        /\ rec'[p].scrape = "err" =>
              /\ rec'[p].done /\ rec'[p].err = "err"
              /\ rec'[p].lookup = "none"
              /\ rec'[p].notify = "none"
              /\ rec'[p].save = "none"
        /\ (rec'[p].scrape = "err" /\ rec'[p] # rec[p]) =>
              collections' = collections]_vars

\* C4 witness: a Scrape error for a URL that has a repository entry.
C4_Witness ==
    \E p \in Passes :
        /\ rec[p].scrape = "err" /\ rec[p].done
        /\ rec[p].url \in DOMAIN collections

\* C5: ScrapeAndNotify returns nil, whatever failed.
C5_AlwaysNil ==
    \A p \in Passes : ret[p].value \in {"none", "nil"}

\* C5 witness: an invocation returned after every one of two URLs failed.
C5_Witness ==
    \E p \in Passes : ret[p].value = "nil" /\ ret[p].failed = 2 /\ Len(urls) = 2

\* C6: after a lookup error the pass saves the scraped snapshot and does not
\* call the notifier.
C6_LookupFailureSaves ==
    \A p \in Passes :
        rec[p].lookup = "err" =>
            /\ rec[p].notify = "none"
            /\ IF rec[p].done
               THEN rec[p].save # "none" /\ rec[p].saveWith = currentJobs[p]
               ELSE pc[p] = "save"

\* C6 witness: a lookup error followed by a successful save of a snapshot
\* with jobs.
C6_Witness ==
    \E p \in Passes :
        /\ rec[p].lookup = "err" /\ rec[p].done /\ rec[p].save = "ok"
        /\ Len(rec[p].saveWith.Jobs) > 0
        /\ collections[rec[p].url] = rec[p].saveWith

\* C7 (as claimed): when the previous pass over the URL scraped and saved,
\* neither pass overlapping another, and this pass scrapes the same jobs, the
\* notifier is not called, and the entry is this pass's snapshot at its end.
C7_NoReReporting ==
    [][\A p \in Passes :
        (/\ rec'[p].alone /\ rec'[p].scrape = "ok"
         /\ rec'[p].prior.known /\ rec'[p].prior.alone
         /\ rec'[p].prior.scrape = "ok" /\ rec'[p].prior.save = "ok"
         /\ rec'[p].prior.page = rec'[p].page)
        => /\ rec'[p].notify = "none"
           /\ (~rec[p].done /\ rec'[p].done) =>
                 /\ rec'[p].url \in DOMAIN collections'
                 /\ collections'[rec'[p].url] = currentJobs'[p]]_vars

\* C8 (as claimed): comparing a snapshot with itself yields no new, updated
\* or removed job.
C8_CompareIdempotent ==
    (result.done /\ previous = current) =>
        /\ result.diff.NewJobs = <<>>
        /\ result.diff.UpdatedJobs = <<>>
        /\ result.diff.RemovedJobs = <<>>

\* C9 (as claimed): no id of current is both new and updated, and every id of
\* previous that is absent from current is in RemovedJobs exactly once.
C9_Partition ==
    result.done =>
        /\ \A id \in IDs(current.Jobs) :
              ~(id \in IDs(result.diff.NewJobs) /\ id \in IDs(result.diff.UpdatedJobs))
        /\ \A id \in IDs(previous.Jobs) \ IDs(current.Jobs) :
              Count(result.diff.RemovedJobs, id) = 1

\* C10: the ids of NewJobs, UpdatedJobs and RemovedJobs are pairwise disjoint.
C10_Disjoint ==
    result.done =>
        /\ IDs(result.diff.NewJobs) \cap IDs(result.diff.UpdatedJobs) = {}
        /\ IDs(result.diff.NewJobs) \cap IDs(result.diff.RemovedJobs) = {}
        /\ IDs(result.diff.UpdatedJobs) \cap IDs(result.diff.RemovedJobs) = {}

\* C10 witness: a diff with a new, an updated and a removed job.
C10_Witness ==
    /\ result.done
    /\ result.diff.NewJobs # <<>>
    /\ result.diff.UpdatedJobs # <<>>
    /\ result.diff.RemovedJobs # <<>>

\* The jobs of a list that carry the id of job.
SameID(jobs, job) == {jobs[m] : m \in {n \in DOMAIN jobs : jobs[n].ID = job.ID}}

\* The two jobs agree on title, description, location and department.
SameTracked(a, b) ==
    /\ a.Title = b.Title
    /\ a.Description = b.Description
    /\ a.Location = b.Location
    /\ a.Department = b.Department

\* The members of a job list.
Members(jobs) == {jobs[k] : k \in DOMAIN jobs}

\* The two snapshots list the same ids, and every job agrees on the four
\* tracked fields with the jobs of its id in the other snapshot.
OnlyUntrackedChanges(prev, cur) ==
    /\ IDs(prev.Jobs) = IDs(cur.Jobs)
    /\ \A job \in Members(cur.Jobs) :
          \A prevJob \in SameID(prev.Jobs, job) : SameTracked(job, prevJob)

C12_FieldSensitivity ==
    result.done =>
        \A job \in Members(current.Jobs) :
            /\ (/\ SameID(previous.Jobs, job) # {}
                /\ \A prevJob \in SameID(previous.Jobs, job) : ~SameTracked(job, prevJob))
               => job \in Members(result.diff.UpdatedJobs)
            /\ SameID(previous.Jobs, job) = {}
               => job \in Members(result.diff.NewJobs)

\* C12 witness: one job reported as updated for its department alone, next
\* to a new job.
C12_Witness ==
    /\ result.done
    /\ result.diff.NewJobs # <<>>
    /\ \E job \in Members(result.diff.UpdatedJobs) :
         \E prevJob \in SameID(previous.Jobs, job) :
            /\ job.Department # prevJob.Department
            /\ job.Title = prevJob.Title
            /\ job.Description = prevJob.Description
            /\ job.Location = prevJob.Location

\* s is t with some of its entries left out, the others in t's order: each
\* entry of s is matched with the first entry of t that is left and equal.
RECURSIVE IsSubSeq(_, _)
IsSubSeq(s, t) ==
    IF s = <<>> THEN TRUE
    ELSE IF t = <<>> THEN FALSE
    ELSE IF Head(s) = Head(t) THEN IsSubSeq(Tail(s), Tail(t))
    ELSE IsSubSeq(s, Tail(t))

\* C13: NewJobs and UpdatedJobs keep the relative order of current.Jobs,
\* RemovedJobs the relative order of previous.Jobs.
C13_ResultOrder ==
    result.done =>
        /\ IsSubSeq(result.diff.NewJobs, current.Jobs)
        /\ IsSubSeq(result.diff.UpdatedJobs, current.Jobs)
        /\ IsSubSeq(result.diff.RemovedJobs, previous.Jobs)

\* C13 witness: two new jobs of distinct ids, in the order of current.Jobs,
\* and a removed job.
C13_Witness ==
    /\ result.done
    /\ Len(result.diff.NewJobs) = 2
    /\ result.diff.NewJobs[1].ID # result.diff.NewJobs[2].ID
    /\ result.diff.NewJobs = current.Jobs
    /\ result.diff.RemovedJobs # <<>>

\* C14: GetLatestJobCollection for a URL no SaveJobCollection has written
\* returns the zero-value collection and a nil error, and no step of the call
\* changes the store.
C14_MissIsNotAnError ==
    [][\A g \in Passes :
        (call'[g].op = "get" /\ call'[g] # call[g]) =>
            /\ collections' = collections
            /\ (call'[g].pc = "runlock" /\ call'[g].miss) =>
                  call'[g].out = [coll |-> EmptyCollection, err |-> "nil"]]_vars

\* C14 witness: a lookup of a URL never saved has returned, while the store
\* holds an entry of the other URL.
C14_Witness ==
    \E g \in Passes :
        /\ call[g].op = "get" /\ call[g].pc = "idle" /\ call[g].miss
        /\ call[g].out.err = "nil"
        /\ DOMAIN collections # {}

\* C15: GetLatestJobCollection returns the collection passed to the latest
\* SaveJobCollection of the URL, whole; every entry is stored under its own
\* SourceURL; SaveJobCollection returns nil.
C15_OverwriteOnSave ==
    /\ \A g \in Passes :
          /\ (call[g].op = "get" /\ call[g].out.err # "none") =>
                call[g].out = [coll |-> call[g].want, err |-> "nil"]
          /\ (call[g].op = "save" /\ call[g].pc = "idle") => call[g].out.err = "nil"
    /\ \A u \in DOMAIN collections : collections[u].SourceURL = u
    /\ \A u \in URLSet : latest[u].some =>
          /\ u \in DOMAIN collections
          /\ collections[u] = latest[u].coll

\* C15 witness: a lookup returned the second collection saved for its URL.
C15_Witness ==
    \E g \in Passes :
        /\ call[g].op = "get" /\ call[g].pc = "idle" /\ ~call[g].miss
        /\ call[g].out.coll.ScrapedAt = 2
        /\ \E h \in Passes :
              /\ call[h].op = "save" /\ call[h].pc = "idle"
              /\ call[h].out.err = "nil"
              /\ call[h].coll.SourceURL = call[g].url
              /\ call[h].coll.ScrapedAt = 1

\* Goroutine g is between Lock and Unlock of SaveJobCollection.
InSave(g) == call[g].pc \in {"write", "unlock"}

\* Goroutine g is between RLock and RUnlock of GetLatestJobCollection.
InGet(g) == call[g].pc \in {"read", "runlock"}

\* C16: while a SaveJobCollection is between its Lock and its Unlock, no
\* other SaveJobCollection and no GetLatestJobCollection is inside its own.
C16_MutualExclusion ==
    \A g, h \in Passes :
        (g # h /\ InSave(g)) => ~InSave(h) /\ ~InGet(h)

\* C16 witness: a save about to write the map while another goroutine waits
\* for the mutex.
C16_Witness ==
    \E g, h \in Passes :
        /\ call[g].pc = "write"
        /\ call[h].pc \in {"lock", "rlock"}

\* C17: a job that returns an error leaves the cron running and main and
\* Start where they were, and a running cron starts the job at its next tick
\* whatever the job returned before.
C17_ContainsJobErrors ==
    [][/\ \A p \in Passes :
            (pc[p] = "job" /\ pc'[p] = "idle" /\ ret'[p].value = "err") =>
                /\ cronRunning' = cronRunning
                /\ phase' = phase
                /\ startPc' = startPc
       /\ (cronRunning /\ phase # "exited" /\ ticks < MaxTicks) =>
            ENABLED (\E q \in Passes : CronTick(q))]_vars

\* C17 witness: the job runs on a tick that came after one of its
\* invocations returned an error.
C17_Witness ==
    \E p \in Passes : pc[p] = "job" /\ fired[p].afterErr /\ cronRunning

\* C18 (as claimed): no tick starts the job once ctx is cancelled, and Start
\* has returned only if ctx is cancelled.
C18_FiresUntilCancelled ==
    /\ \A p \in Passes : ~fired[p].afterCancel
    /\ startPc = "returned" => ctxDone

\* C19 (as claimed): no tick starts the job after Stop has returned.
C19_StopHaltsDispatch ==
    \A p \in Passes : ~fired[p].afterStop

\* C20 (as claimed): once main has cancelled its ctx, the next step of a
\* scheduled pass that is in the middle of a URL ends that URL with an error,
\* without a save, and the repository is left as it was.
C20_CancellationAborts ==
    [][\A p \in Passes :
        (phase = "stopped" /\ MidStep(p, rec[p].url) /\ rec'[p] # rec[p]) =>
            /\ rec'[p].done /\ rec'[p].err = "err"
            /\ rec'[p].save = "none"
            /\ collections' = collections]_vars

\* C21: NotifyNewJobs called with a diff whose three lists are empty returns
\* nil and sends no webhook request.
C21_NotifierSkipsEmptyDiff ==
    (/\ delivery.called
     /\ result.diff.NewJobs = <<>>
     /\ result.diff.UpdatedJobs = <<>>
     /\ result.diff.RemovedJobs = <<>>)
    => delivery.requests = 0 /\ delivery.err = "nil"

\* C21 witness: NotifyNewJobs has returned from a call with an empty diff.
C21_Witness ==
    /\ delivery.called /\ delivery.requests = 0
    /\ result.diff.NewJobs = <<>>
    /\ result.diff.UpdatedJobs = <<>>
    /\ result.diff.RemovedJobs = <<>>

NonEmptyDiff(d) == d.NewJobs # <<>> \/ d.UpdatedJobs # <<>> \/ d.RemovedJobs # <<>>

\* C23: for a URL whose Scrape and lookup succeeded, the notifier is called
\* exactly when the diff lists a job, once, with that diff and before the
\* save; with or without the call, SaveJobCollection is called once, last,
\* with the snapshot scraped.
C23_NotifyIffChangedThenSave ==
    \A p \in Passes :
        (rec[p].scrape = "ok" /\ rec[p].lookup = "ok") =>
            /\ ~rec[p].done => pc[p] \in {"notify", "save"}
            /\ pc[p] = "notify" =>
                  /\ NonEmptyDiff(diff[p])
                  /\ rec[p].notify = "none" /\ rec[p].save = "none"
            /\ (pc[p] = "save" /\ ~rec[p].done) =>
                  /\ rec[p].notify # "none" <=> NonEmptyDiff(diff[p])
                  /\ rec[p].notify # "none" => rec[p].notifyWith = diff[p]
                  /\ rec[p].save = "none"
            /\ rec[p].done =>
                  /\ rec[p].notify # "none" <=> rec[p].changed
                  /\ rec[p].save # "none"
                  /\ rec[p].saveWith = currentJobs[p]

\* C23 witness: a URL was saved without a notifier call, its diff empty, in a
\* pass over a URL that had an entry.
C23_Witness ==
    \E p \in Passes :
        /\ rec[p].scrape = "ok" /\ rec[p].lookup = "ok" /\ rec[p].hadEntry
        /\ rec[p].done /\ ~rec[p].changed
        /\ rec[p].notify = "none" /\ rec[p].save = "ok"
        /\ Len(rec[p].saveWith.Jobs) > 0

\* C24: an invocation takes the URLs in list order, one at a time: when it
\* is about to call Scrape, the URL before in the list (if any) has finished
\* all its calls, and the calls in progress are those of the URL of the loop.
C24_SequentialInOrder ==
    \A p \in Passes :
        /\ pc[p] = "scrape" =>
              /\ i[p] \in 1..Len(urls)
              /\ Len(trail[p]) = i[p] - 1
              /\ IF i[p] = 1 THEN rec[p] = NoStep
                 ELSE /\ rec[p].done /\ rec[p].index = i[p] - 1
                      /\ rec[p].url = urls[i[p] - 1]
                      /\ FullPipeline(rec[p])
        /\ pc[p] \in {"lookup", "notify", "save"} =>
              /\ ~rec[p].done
              /\ rec[p].index = i[p] /\ rec[p].url = urls[i[p]]
              /\ Len(trail[p]) = i[p] - 1
        /\ \A k \in DOMAIN trail[p] : trail[p][k].index = k

\* C24 witness: an invocation is about to call Scrape for the second URL,
\* the first one saved.
C24_Witness ==
    \E p \in Passes :
        /\ pc[p] = "scrape" /\ i[p] = 2
        /\ rec[p].done /\ rec[p].save = "ok" /\ rec[p].url = urls[1]

\* C25: a tick starts the job whether or not an earlier invocation is still
\* running: while main waits for the signal and ticks remain, the tick is
\* enabled.
C25_TickDoesNotWait ==
    (phase = "scheduled" /\ ticks < MaxTicks) =>
        ENABLED (\E p \in Passes : Tick(p))

\* C25 witness: two invocations are between Scrape and SaveJobCollection
\* for the same URL.
C25_Witness ==
    \E p, q \in Passes : \E u \in URLSet :
        p # q /\ MidStep(p, u) /\ MidStep(q, u)

\* The collection is what a successful Scrape of the URL returned for some
\* page, at a time before the URL's clock read now.
IsScrapeResult(c, u, now) ==
    /\ c.ScrapedAt \in 1..(now - 1)
    /\ \E page \in PageSet : c = Scrape(u, page, FALSE, c.ScrapedAt).coll

\* C26: every repository entry is a collection some successful Scrape of
\* its URL returned, as returned, under its own SourceURL; and an entry
\* changes only in a save of an invocation processing that URL, to the
\* snapshot that invocation scraped.
C26_WholeScrapeResults ==
    [][/\ \A u \in DOMAIN collections' :
            /\ collections'[u].SourceURL = u
            /\ IsScrapeResult(collections'[u], u, clock'[u])
       /\ \A u \in URLSet :
            (\/ (u \in DOMAIN collections') # (u \in DOMAIN collections)
             \/ /\ u \in DOMAIN collections /\ u \in DOMAIN collections'
                /\ collections'[u] # collections[u])
            => \E p \in Passes :
                  /\ pc[p] = "save" /\ rec[p].url = u
                  /\ rec[p].scrape = "ok"
                  /\ collections'[u] = currentJobs[p]]_vars

\* C26 witness: both URLs have an entry, one saved while another invocation
\* was in the middle of the other URL.
C26_Witness ==
    /\ DOMAIN collections = URLSet
    /\ \E p \in Passes : MidStep(p, "A") /\ ~rec[p].alone
    /\ \E u \in URLSet : Len(collections[u].Jobs) = 2

\* Invocations p and q are both past the lookup of the same URL, neither has
\* saved, and they looked up the same entry and scraped the same page.
SameReadOverlap(p, q) ==
    /\ p # q
    /\ pc[p] \in {"notify", "save"} /\ pc[q] \in {"notify", "save"}
    /\ rec[p].url = rec[q].url
    /\ rec[p].lookup = "ok" /\ rec[q].lookup = "ok"
    /\ previousJobs[p] = previousJobs[q]
    /\ rec[p].page = rec[q].page

\* C27: two invocations that overlap on a URL, looked up the same entry
\* before either saved and scraped the same page, have the same diff (scrape
\* times apart), and when it lists a job each of them calls the notifier
\* with it.
C27_DuplicateDelivery ==
    \A p, q \in Passes :
        SameReadOverlap(p, q) =>
            /\ StripTime(diff[p]) = StripTime(diff[q])
            /\ NonEmptyDiff(diff[p]) =>
                  /\ pc[p] = "notify" \/ rec[p].notify # "none"
                  /\ pc[q] = "notify" \/ rec[q].notify # "none"
                  /\ rec[p].notify # "none" => rec[p].notifyWith = diff[p]

\* C27 witness: both invocations have called the notifier with the same
\* diff of an entry that existed, and neither has saved.
C27_Witness ==
    \E p, q \in Passes :
        /\ SameReadOverlap(p, q)
        /\ rec[p].hadEntry
        /\ rec[p].notify = "ok" /\ rec[q].notify = "ok"
        /\ NonEmptyDiff(rec[p].notifyWith)
        /\ StripTime(rec[p].notifyWith) = StripTime(rec[q].notifyWith)

\* C28: a save replaces the entry by the snapshot of the invocation that
\* saves, whatever the scrape time of the entry before.
C28_LastWriterWins ==
    [][\A p \in Passes :
        (pc[p] = "save" /\ rec[p].save = "none" /\ rec'[p].save = "ok") =>
            /\ rec[p].url \in DOMAIN collections'
            /\ collections'[rec[p].url] = currentJobs[p]]_vars

\* C28 witness: an invocation saved a snapshot of the URL, and the entry is
\* now the snapshot another invocation had scraped earlier.
C28_Witness ==
    \E p \in Passes :
        /\ rec[p].done /\ rec[p].save = "ok"
        /\ rec[p].url \in DOMAIN collections
        /\ collections[rec[p].url].ScrapedAt < rec[p].saveWith.ScrapedAt

====
